---------------------------- MODULE Spec2Model ----------------------------
(***************************************************************************)
(* Lifecycle state tracker of ApplicationSnapshot                          *)
(* (appstudio-shared/apis/appstudio.redhat.com/v1alpha1/                   *)
(*  applicationsnapshot_types.go).                                         *)
(*                                                                         *)
(* The state is the Status sub-structure of one ApplicationSnapshot        *)
(* (StartTime, CompletionTime, Conditions), the wall clock read by         *)
(* time.Now(), the history of the Mark* calls made on the object (kept     *)
(* while `recording`) and the statuses the Succeeded condition has had.    *)
(* One action per Mark* method.  The condition helpers of                  *)
(* k8s.io/apimachinery/pkg/api/meta are operators.                         *)
(***************************************************************************)
EXTENDS Integers, Sequences, FiniteSets

VARIABLES StartTime, CompletionTime, Conditions, now, calls, seen, recording

vars == <<StartTime, CompletionTime, Conditions, now, calls, seen, recording>>

status == <<StartTime, CompletionTime, Conditions>>

---------------------------------------------------------------------------
(* Bounds of the model. *)

\* The clock runs from 1 to MaxClock; every call takes at least one tick.
\* With the call history kept, the calls made up to MaxClock are followed;
\* without it, calls go on for ever and the instants after MaxClock are not
\* told apart (the clock reads MaxClock).
MaxClock == 4

---------------------------------------------------------------------------
(* Values. *)

\* A pointer (*metav1.Time, *metav1.Condition) is a sequence of at most one
\* element: Nil, or Ptr(v) pointing at v.
Nil == <<>>

Ptr(v) == <<v>>

Deref(p) == p[1]

\* The zero time.Time, for which metav1.Time.IsZero() is true.
ZeroTime == 0

ConditionTrue == "True"

ConditionFalse == "False"

ConditionUnknown == "Unknown"

applicationSnapshotConditionType == "Succeeded"

ApplicationSnapshotReasonValidationError == "Error"

ApplicationSnapshotReasonTestsFailed == "TestsFailed"

ApplicationSnapshotReasonTestsRunning == "TestsRunning"

ApplicationSnapshotReasonSucceeded == "Succeeded"

\* The reasons and messages a caller passes to MarkFailed and MarkInvalid.
Reasons == {ApplicationSnapshotReasonValidationError, ApplicationSnapshotReasonTestsFailed}

Messages == {"", "x"}

---------------------------------------------------------------------------
(* k8s.io/apimachinery/pkg/api/meta: the condition helpers the methods call. *)

\* The index of the first condition of the given type, 0 when there is none.
FindIndex(conditions, conditionType) ==
    IF \E i \in 1..Len(conditions) : conditions[i].Type = conditionType
    THEN CHOOSE i \in 1..Len(conditions) :
            /\ conditions[i].Type = conditionType
            /\ \A j \in 1..(i - 1) : conditions[j].Type # conditionType
    ELSE 0

\* meta.FindStatusCondition: the first condition of the type, or nil.
FindStatusCondition(conditions, conditionType) ==
    LET i == FindIndex(conditions, conditionType)
    IN  IF i = 0 THEN Nil ELSE Ptr(conditions[i])

\* meta.IsStatusConditionTrue: a condition of the type is present with status True.
IsStatusConditionTrue(conditions, conditionType) ==
    LET c == FindStatusCondition(conditions, conditionType)
    IN  IF c = Nil THEN FALSE ELSE Deref(c).Status = ConditionTrue

\* Mutant: SetStatusCondition appends without looking for an existing record.
SetStatusCondition_Appends(conditions, newCondition, t) ==
    Append(conditions,
           IF newCondition.LastTransitionTime = ZeroTime
           THEN [newCondition EXCEPT !.LastTransitionTime = t]
           ELSE newCondition)

\* Mutant: SetStatusCondition refreshes LastTransitionTime on every update.
SetStatusCondition_AlwaysStamps(conditions, newCondition, t) ==
    LET i == FindIndex(conditions, newCondition.Type)
    IN  IF i = 0
        THEN Append(conditions,
                    IF newCondition.LastTransitionTime = ZeroTime
                    THEN [newCondition EXCEPT !.LastTransitionTime = t]
                    ELSE newCondition)
        ELSE [conditions EXCEPT ![i] =
                [Type |-> newCondition.Type,
                 Status |-> newCondition.Status,
                 Reason |-> newCondition.Reason,
                 Message |-> newCondition.Message,
                 LastTransitionTime |-> t]]

\* meta.SetStatusCondition, t being what time.Now() returns inside it:
\* appends a new condition (stamping LastTransitionTime when it is zero), or
\* updates the existing one in place, LastTransitionTime only when the
\* status changes.
SetStatusCondition(conditions, newCondition, t) ==
    LET i == FindIndex(conditions, newCondition.Type)
    IN  IF i = 0
        THEN Append(conditions,
                    IF newCondition.LastTransitionTime = ZeroTime
                    THEN [newCondition EXCEPT !.LastTransitionTime = t]
                    ELSE newCondition)
        ELSE LET existing == conditions[i]
                 changed ==
                    IF existing.Status # newCondition.Status
                    THEN [existing EXCEPT
                            !.Status = newCondition.Status,
                            !.LastTransitionTime =
                                IF newCondition.LastTransitionTime # ZeroTime
                                THEN newCondition.LastTransitionTime
                                ELSE t]
                    ELSE existing
             IN  [conditions EXCEPT ![i] =
                    [changed EXCEPT !.Reason = newCondition.Reason,
                                    !.Message = newCondition.Message]]

---------------------------------------------------------------------------
(* Queries. *)

HasStarted == StartTime # Nil /\ Deref(StartTime) # ZeroTime

\* Mutant: HasSucceeded as its name reads.
HasSucceeded_Positive == IsStatusConditionTrue(Conditions, applicationSnapshotConditionType)

HasSucceeded == ~IsStatusConditionTrue(Conditions, applicationSnapshotConditionType)

\* Mutant: IsDone is true whenever a Succeeded condition exists.
IsDone_AnyCondition ==
    FindStatusCondition(Conditions, applicationSnapshotConditionType) # Nil

IsDone ==
    LET condition == FindStatusCondition(Conditions, applicationSnapshotConditionType)
    IN  IF condition # Nil
        THEN Deref(condition).Status # ConditionUnknown
        ELSE FALSE

\* The Succeeded condition (a pointer into Conditions, Nil when absent).
Succeeded == FindStatusCondition(Conditions, applicationSnapshotConditionType)

\* The lifecycle state: the Succeeded condition's status, "Initialized" when
\* no condition has been set.
Initialized == "Initialized"

State == IF Succeeded = Nil THEN Initialized ELSE Deref(Succeeded).Status

---------------------------------------------------------------------------
(* The clock. *)

\* The instants a call made after `now` can start at: the clock is strictly
\* later than at the previous call.
CallTimes ==
    {t \in 1..MaxClock : t = now + 1 \/ (~recording /\ now = MaxClock /\ t = MaxClock)}

\* A later time.Now() inside the same call: not earlier than the first.
LaterReads(t) == {u \in 1..MaxClock : u = t \/ u = t + 1}

---------------------------------------------------------------------------
(* Mutators. *)

\* The call is appended to the history, and the state it leaves is recorded.
Called(call) ==
    /\ calls' = IF recording THEN Append(calls, call) ELSE calls
    /\ seen' = seen \cup {State'}
    /\ UNCHANGED recording

\* Mutant: the message is dropped on the way to the condition.
setStatusConditionWithMessage_NoMessage(conditionStatus, reason, message, t) ==
    Conditions' = SetStatusCondition(Conditions,
                      [Type |-> applicationSnapshotConditionType,
                       Status |-> conditionStatus,
                       Reason |-> reason,
                       Message |-> "",
                       LastTransitionTime |-> ZeroTime], t)

setStatusConditionWithMessage(conditionStatus, reason, message, t) ==
    Conditions' = SetStatusCondition(Conditions,
                      [Type |-> applicationSnapshotConditionType,
                       Status |-> conditionStatus,
                       Reason |-> reason,
                       Message |-> message,
                       LastTransitionTime |-> ZeroTime], t)

setStatusCondition(conditionStatus, reason, t) ==
    setStatusConditionWithMessage(conditionStatus, reason, "", t)

\* Mutant: MarkFailed without its guard.
MarkFailed_Unguarded(reason, message) ==
    /\ \E t \in CallTimes :
        /\ CompletionTime' = Ptr(t)
        /\ \E u \in LaterReads(t) :
              /\ Conditions' = SetStatusCondition(Conditions,
                                  [Type |-> applicationSnapshotConditionType,
                                   Status |-> ConditionFalse,
                                   Reason |-> reason,
                                   Message |-> message,
                                   LastTransitionTime |-> ZeroTime], u)
              /\ now' = u
        /\ UNCHANGED StartTime
    /\ Called(<<"MarkFailed", reason, message>>)

MarkFailed(reason, message) ==
    /\ \E t \in CallTimes :
        IF IsDone /\ CompletionTime # Nil
        THEN /\ now' = t
             /\ UNCHANGED status
        ELSE /\ CompletionTime' = Ptr(t)
             /\ \E u \in LaterReads(t) :
                   /\ setStatusConditionWithMessage(ConditionFalse, reason, message, u)
                   /\ now' = u
             /\ UNCHANGED StartTime
    /\ Called(<<"MarkFailed", reason, message>>)

\* Mutant: MarkInvalid without its guard.
MarkInvalid_Unguarded(reason, message) ==
    /\ \E t \in CallTimes :
        /\ Conditions' = SetStatusCondition(Conditions,
                            [Type |-> applicationSnapshotConditionType,
                             Status |-> ConditionFalse,
                             Reason |-> reason,
                             Message |-> message,
                             LastTransitionTime |-> ZeroTime], t)
        /\ now' = t
        /\ UNCHANGED <<StartTime, CompletionTime>>
    /\ Called(<<"MarkInvalid", reason, message>>)

\* Mutant: MarkInvalid stamps the completion time, as MarkFailed does.
MarkInvalid_Stamps(reason, message) ==
    /\ \E t \in CallTimes :
        IF IsDone
        THEN /\ now' = t
             /\ UNCHANGED status
        ELSE /\ CompletionTime' = Ptr(t)
             /\ Conditions' = SetStatusCondition(Conditions,
                                 [Type |-> applicationSnapshotConditionType,
                                  Status |-> ConditionFalse,
                                  Reason |-> reason,
                                  Message |-> message,
                                  LastTransitionTime |-> ZeroTime], t)
             /\ now' = t
             /\ UNCHANGED StartTime
    /\ Called(<<"MarkInvalid", reason, message>>)

MarkInvalid(reason, message) ==
    /\ \E t \in CallTimes :
        IF IsDone
        THEN /\ now' = t
             /\ UNCHANGED status
        ELSE /\ setStatusConditionWithMessage(ConditionFalse, reason, message, t)
             /\ now' = t
             /\ UNCHANGED <<StartTime, CompletionTime>>
    /\ Called(<<"MarkInvalid", reason, message>>)

\* Mutant: MarkRunning without its guard.
MarkRunning_Unguarded ==
    /\ \E t \in CallTimes :
        /\ StartTime' = Ptr(t)
        /\ \E u \in LaterReads(t) :
              /\ Conditions' = SetStatusCondition(Conditions,
                                  [Type |-> applicationSnapshotConditionType,
                                   Status |-> ConditionUnknown,
                                   Reason |-> ApplicationSnapshotReasonTestsRunning,
                                   Message |-> "",
                                   LastTransitionTime |-> ZeroTime], u)
              /\ now' = u
        /\ UNCHANGED CompletionTime
    /\ Called(<<"MarkRunning">>)

MarkRunning ==
    /\ \E t \in CallTimes :
        IF HasStarted /\ StartTime # Nil
        THEN /\ now' = t
             /\ UNCHANGED status
        ELSE /\ StartTime' = Ptr(t)
             /\ \E u \in LaterReads(t) :
                   /\ setStatusCondition(ConditionUnknown, ApplicationSnapshotReasonTestsRunning, u)
                   /\ now' = u
             /\ UNCHANGED CompletionTime
    /\ Called(<<"MarkRunning">>)

\* Mutant: MarkSucceeded without its guard.
MarkSucceeded_Unguarded ==
    /\ \E t \in CallTimes :
        /\ CompletionTime' = Ptr(t)
        /\ \E u \in LaterReads(t) :
              /\ Conditions' = SetStatusCondition(Conditions,
                                  [Type |-> applicationSnapshotConditionType,
                                   Status |-> ConditionTrue,
                                   Reason |-> ApplicationSnapshotReasonSucceeded,
                                   Message |-> "",
                                   LastTransitionTime |-> ZeroTime], u)
              /\ now' = u
        /\ UNCHANGED StartTime
    /\ Called(<<"MarkSucceeded">>)

\* Mutant: MarkSucceeded forgets the completion time.
MarkSucceeded_NoStamp ==
    /\ \E t \in CallTimes :
        IF IsDone /\ CompletionTime # Nil
        THEN /\ now' = t
             /\ UNCHANGED status
        ELSE /\ Conditions' = SetStatusCondition(Conditions,
                                 [Type |-> applicationSnapshotConditionType,
                                  Status |-> ConditionTrue,
                                  Reason |-> ApplicationSnapshotReasonSucceeded,
                                  Message |-> "",
                                  LastTransitionTime |-> ZeroTime], t)
             /\ now' = t
             /\ UNCHANGED <<StartTime, CompletionTime>>
    /\ Called(<<"MarkSucceeded">>)

\* Mutant: MarkSucceeded guarded by IsDone() alone, as MarkInvalid is.
MarkSucceeded_GuardIsDone ==
    /\ \E t \in CallTimes :
        IF IsDone
        THEN /\ now' = t
             /\ UNCHANGED status
        ELSE /\ CompletionTime' = Ptr(t)
             /\ \E u \in LaterReads(t) :
                   /\ Conditions' = SetStatusCondition(Conditions,
                                       [Type |-> applicationSnapshotConditionType,
                                        Status |-> ConditionTrue,
                                        Reason |-> ApplicationSnapshotReasonSucceeded,
                                        Message |-> "",
                                        LastTransitionTime |-> ZeroTime], u)
                   /\ now' = u
             /\ UNCHANGED StartTime
    /\ Called(<<"MarkSucceeded">>)

MarkSucceeded ==
    /\ \E t \in CallTimes :
        IF IsDone /\ CompletionTime # Nil
        THEN /\ now' = t
             /\ UNCHANGED status
        ELSE /\ CompletionTime' = Ptr(t)
             /\ \E u \in LaterReads(t) :
                   /\ setStatusCondition(ConditionTrue, ApplicationSnapshotReasonSucceeded, u)
                   /\ now' = u
             /\ UNCHANGED StartTime
    /\ Called(<<"MarkSucceeded">>)

---------------------------------------------------------------------------
(* The specifications: a fresh snapshot, then any sequence of Mark* calls.  *)
(* Spec keeps the history of the calls.  LiveSpec keeps none, and is the   *)
(* endless executions of a caller that keeps invoking MarkSucceeded or     *)
(* MarkFailed.                                                             *)

Init ==
    /\ StartTime = Nil
    /\ CompletionTime = Nil
    /\ Conditions = <<>>
    /\ now = 0
    /\ calls = <<>>
    /\ seen = {Initialized}
    /\ recording = TRUE

Next ==
    \/ MarkRunning
    \/ MarkSucceeded
    \/ \E reason \in Reasons, message \in Messages : MarkFailed(reason, message)
    \/ \E reason \in Reasons, message \in Messages : MarkInvalid(reason, message)

Spec == Init /\ [][Next]_vars

LiveInit ==
    /\ StartTime = Nil
    /\ CompletionTime = Nil
    /\ Conditions = <<>>
    /\ now = 0
    /\ calls = <<>>
    /\ seen = {Initialized}
    /\ recording = FALSE

\* The caller keeps invoking MarkSucceeded or MarkFailed.
Fairness ==
    WF_vars(\/ MarkSucceeded
            \/ \E reason \in Reasons, message \in Messages : MarkFailed(reason, message))

LiveSpec == LiveInit /\ [][Next]_vars /\ Fairness


---------------------------------------------------------------------------
(* What the claims speak of. *)

\* The Succeeded condition's status, reason and message (none when absent).
Outcome ==
    IF Succeeded = Nil
    THEN <<Initialized>>
    ELSE <<Deref(Succeeded).Status, Deref(Succeeded).Reason, Deref(Succeeded).Message>>

\* The guard of MarkFailed and MarkSucceeded.
Completed == IsDone /\ CompletionTime # Nil

\* The step is a call of the given method with the given arguments.
Calls(call) == calls' = Append(calls, call)

\* The step is a call of the given method, whatever its arguments.
Invokes(method) ==
    /\ Len(calls') = Len(calls) + 1
    /\ calls'[Len(calls')][1] = method

\* The last call made was of the given method.
After(method) == calls # <<>> /\ calls[Len(calls)][1] = method

\* MarkFailed or MarkSucceeded has been called.
CalledTerminal ==
    \E i \in 1..Len(calls) : calls[i][1] \in {"MarkFailed", "MarkSucceeded"}

\* The lifecycle-state changes of the state table.
Transitions ==
    { <<Initialized, ConditionUnknown>>,
      <<ConditionUnknown, ConditionFalse>>,
      <<ConditionUnknown, ConditionTrue>>,
      <<Initialized, ConditionFalse>> }

---------------------------------------------------------------------------
(* C1 - C4: the terminal states. *)

\* C1: completionTime is write-once: once Status.CompletionTime is non-nil,
\* no later Mark* call changes its value.
\* Refuted: MarkFailed, MarkRunning, MarkFailed stamps it twice.
C1_CompletionTimeWriteOnce ==
    [][CompletionTime # Nil => CompletionTime' = CompletionTime]_vars

\* C2: in a state where IsDone() is true and completionTime is non-nil, no
\* Mark* call changes the Succeeded condition's status, reason or message.
\* Refuted: MarkRunning on a snapshot that failed before it was started.
C2_NoTransitionOutOfTerminal ==
    [][Completed => Outcome' = Outcome]_vars

\* C3: a snapshot reaches exactly one terminal outcome: the Succeeded
\* condition is never True at one point and False at another.
\* Refuted: MarkInvalid, MarkSucceeded.
C3_OneTerminalOutcome ==
    ~({ConditionTrue, ConditionFalse} \subseteq seen)

\* C4: the only lifecycle-state changes a Mark* call makes are
\* Initialized -> Running, Running -> Failed, Running -> Succeeded and
\* Initialized -> Failed.
\* Refuted: MarkSucceeded on a fresh snapshot.
C4_OnlyTableTransitions ==
    [][State' # State => <<State, State'>> \in Transitions]_vars

---------------------------------------------------------------------------
(* C5 - C10: the contracts of the Mark* methods. *)

\* C5: startTime is write-once: once Status.StartTime is non-nil and
\* non-zero no Mark* call changes it; a second MarkRunning() right after a
\* first leaves it unchanged although the clock has advanced.
C5_StartTimeWriteOnce ==
    [][ /\ HasStarted => StartTime' = StartTime
        /\ After("MarkRunning") /\ Invokes("MarkRunning") =>
              /\ StartTime' = StartTime
              /\ now' > Deref(StartTime) ]_vars

C5_SecondMarkRunning ==
    /\ Len(calls) >= 2
    /\ calls[Len(calls) - 1] = <<"MarkRunning">>
    /\ calls[Len(calls)] = <<"MarkRunning">>
    /\ HasStarted
    /\ Deref(StartTime) < now

\* C6: right after MarkSucceeded() returns IsDone() is true, and a
\* MarkFailed(reason, message) invoked next changes neither the Succeeded
\* condition (status, reason, message, lastTransitionTime) nor completionTime.
C6_SucceededThenFailedIsNoOp ==
    [][ /\ Invokes("MarkSucceeded") => IsDone'
        /\ After("MarkSucceeded") /\ Invokes("MarkFailed") =>
              UNCHANGED <<Conditions, CompletionTime>> ]_vars

C6_FailedAfterSucceeded ==
    /\ Len(calls) >= 2
    /\ calls[Len(calls) - 1] = <<"MarkSucceeded">>
    /\ calls[Len(calls)] = <<"MarkFailed", ApplicationSnapshotReasonValidationError, "x">>
    /\ Outcome = <<ConditionTrue, ApplicationSnapshotReasonSucceeded, "">>
    /\ CompletionTime # Nil
    /\ Deref(CompletionTime) < now

\* C7, as claimed: in every reachable state where IsDone() is true,
\* Status.CompletionTime is non-nil.
\* Refuted: MarkInvalid on a fresh snapshot.
C7_DoneHasCompletionTime ==
    IsDone => CompletionTime # Nil

\* C7, amended: in every reachable state where IsDone() is true and
\* MarkFailed or MarkSucceeded has been called, Status.CompletionTime is
\* non-nil (MarkInvalid alone leaves a done snapshot without one).
C7_DoneAfterTerminalCallHasCompletionTime ==
    IsDone /\ CalledTerminal => CompletionTime # Nil

C7_FailedAfterInvalid ==
    /\ Len(calls) = 2
    /\ calls[1][1] = "MarkInvalid"
    /\ calls[2][1] = "MarkFailed"
    /\ IsDone
    /\ CompletionTime = Ptr(2)

\* C8: MarkInvalid(reason, message) never modifies completionTime or
\* startTime; with IsDone() false beforehand it sets the Succeeded condition
\* to (False, reason, message), with IsDone() true beforehand it changes
\* nothing; on a fresh snapshot it leaves (False, reason, message) with
\* completionTime nil.
C8_MarkInvalidContract ==
    [][ \A reason \in Reasons, message \in Messages :
            Calls(<<"MarkInvalid", reason, message>>) =>
                /\ UNCHANGED <<StartTime, CompletionTime>>
                /\ ~IsDone => Outcome' = <<ConditionFalse, reason, message>>
                /\ IsDone => UNCHANGED status
                /\ calls = <<>> =>
                      /\ Outcome' = <<ConditionFalse, reason, message>>
                      /\ CompletionTime' = Nil ]_vars

C8_InvalidOnFresh ==
    /\ calls = << <<"MarkInvalid", ApplicationSnapshotReasonValidationError, "x">> >>
    /\ Outcome = <<ConditionFalse, ApplicationSnapshotReasonValidationError, "x">>
    /\ StartTime = Nil
    /\ CompletionTime = Nil

\* C9: MarkFailed(reason, message) invoked where its guard (IsDone() and
\* completionTime non-nil) does not hold sets completionTime to the current
\* time and leaves the Succeeded condition (False, reason, message).
C9_MarkFailedContract ==
    [][ \A reason \in Reasons, message \in Messages :
            Calls(<<"MarkFailed", reason, message>>) /\ ~Completed =>
                /\ CompletionTime' # Nil
                /\ now < Deref(CompletionTime')
                /\ Deref(CompletionTime') <= now'
                /\ Outcome' = <<ConditionFalse, reason, message>> ]_vars

C9_FailedOnFresh ==
    /\ calls = << <<"MarkFailed", ApplicationSnapshotReasonValidationError, "x">> >>
    /\ Outcome = <<ConditionFalse, ApplicationSnapshotReasonValidationError, "x">>
    /\ CompletionTime # Nil

\* C10: from a fresh snapshot MarkRunning() then MarkSucceeded() sets
\* startTime once and completionTime once and ends with the condition
\* (True, Succeeded, "") and IsDone() true; and MarkSucceeded() invoked where
\* its guard (IsDone() and completionTime non-nil) does not hold yields
\* (True, Succeeded, "") and a non-nil completionTime.
C10_MarkSucceededContract ==
    [][ /\ calls = <<>> /\ Calls(<<"MarkRunning">>) =>
              /\ StartTime = Nil
              /\ StartTime' # Nil
              /\ CompletionTime' = Nil
        /\ calls = << <<"MarkRunning">> >> /\ Calls(<<"MarkSucceeded">>) =>
              /\ StartTime' = StartTime
              /\ CompletionTime = Nil
              /\ CompletionTime' # Nil
              /\ Outcome' = <<ConditionTrue, ApplicationSnapshotReasonSucceeded, "">>
              /\ IsDone'
        /\ Calls(<<"MarkSucceeded">>) /\ ~Completed =>
              /\ Outcome' = <<ConditionTrue, ApplicationSnapshotReasonSucceeded, "">>
              /\ CompletionTime' # Nil ]_vars

C10_HappyPath ==
    /\ calls = << <<"MarkRunning">>, <<"MarkSucceeded">> >>
    /\ Outcome = <<ConditionTrue, ApplicationSnapshotReasonSucceeded, "">>
    /\ IsDone
    /\ StartTime = Ptr(1)
    /\ CompletionTime # Nil
    /\ Deref(StartTime) < Deref(CompletionTime)

---------------------------------------------------------------------------
(* C11 - C20. *)

\* The Succeeded conditions in Status.Conditions.
SucceededRecords ==
    {i \in 1..Len(Conditions) : Conditions[i].Type = applicationSnapshotConditionType}

\* C11: the snapshot enters the running state at most once: at most one
\* call sets the Succeeded condition to (Unknown, TestsRunning), so there is
\* at most one step at which its status becomes Unknown.
C11_RunningAtMostOnce ==
    [][ /\ State' = ConditionUnknown /\ State # ConditionUnknown =>
              ConditionUnknown \notin seen
        /\ Invokes("MarkRunning") /\ Conditions' # Conditions =>
              /\ ConditionUnknown \notin seen
              /\ Outcome' = <<ConditionUnknown, ApplicationSnapshotReasonTestsRunning, "">> ]_vars

C11_MarkRunningAfterRunning ==
    /\ After("MarkRunning")
    /\ ConditionUnknown \in seen
    /\ State = ConditionFalse
    /\ Len(calls) >= 3

\* C12: IsDone() is true exactly when a Succeeded condition exists and its
\* status is True or False; it is false on a fresh snapshot and false while
\* the status is Unknown.
C12_IsDoneContract ==
    /\ IsDone <=> \E i \in SucceededRecords :
                      Conditions[i].Status \in {ConditionTrue, ConditionFalse}
    /\ calls = <<>> => ~IsDone
    /\ (\E i \in SucceededRecords : Conditions[i].Status = ConditionUnknown) => ~IsDone

C12_DoneWhenFalse ==
    /\ IsDone
    /\ \E i \in SucceededRecords : Conditions[i].Status = ConditionFalse
    /\ ConditionUnknown \in seen

C14_AtMostOneSucceededRecord ==
    /\ Cardinality(SucceededRecords) <= 1
    /\ calls # <<>> => Len(Conditions) = 1

C14_RecordReplacedInPlace ==
    /\ Len(Conditions) = 1
    /\ seen = {Initialized, ConditionUnknown, ConditionFalse, ConditionTrue}

\* The Succeeded condition's lastTransitionTime.
LastTransitionTime == Deref(Succeeded).LastTransitionTime

\* C15: a Mark* call refreshes the Succeeded condition's lastTransitionTime
\* only when it creates the condition or changes its status: a call that
\* rewrites the condition with the same status leaves it unchanged, and
\* every call that changes the status sets it to the current time.
C15_LastTransitionTime ==
    [][ /\ Succeeded # Nil /\ State' = State =>
              LastTransitionTime' = LastTransitionTime
        /\ State' # State =>
              /\ now < LastTransitionTime'
              /\ LastTransitionTime' <= now' ]_vars

C15_FailedAfterInvalid ==
    /\ calls = << <<"MarkInvalid", ApplicationSnapshotReasonValidationError, "x">>,
                  <<"MarkFailed", ApplicationSnapshotReasonTestsFailed, "">> >>
    /\ Outcome = <<ConditionFalse, ApplicationSnapshotReasonTestsFailed, "">>
    /\ LastTransitionTime = 1
    /\ CompletionTime = Ptr(2)

\* C16: set-once idempotence: invoking MarkRunning(), MarkSucceeded(),
\* MarkFailed(r, m) or MarkInvalid(r, m) a second time right after the first,
\* with the same arguments and a later clock, leaves the status (startTime,
\* completionTime, the condition's status, reason, message and
\* lastTransitionTime) as the first call left it.
C16_SecondCallIsNoOp ==
    [][ calls # <<>> /\ Calls(calls[Len(calls)]) =>
            /\ UNCHANGED status
            /\ now' > now ]_vars

C16_MarkFailedTwice ==
    /\ Len(calls) = 3
    /\ calls[1] = <<"MarkRunning">>
    /\ calls[2] = <<"MarkFailed", ApplicationSnapshotReasonTestsFailed, "x">>
    /\ calls[3] = calls[2]
    /\ Outcome = <<ConditionFalse, ApplicationSnapshotReasonTestsFailed, "x">>
    /\ CompletionTime # Nil
    /\ Deref(CompletionTime) < now

\* C17: the timestamps bracket the active lifetime: whenever both startTime
\* and completionTime are set, startTime is not later than completionTime.
\* Refuted: MarkSucceeded, then MarkRunning.
C17_StartNotAfterCompletion ==
    StartTime # Nil /\ CompletionTime # Nil =>
        Deref(StartTime) <= Deref(CompletionTime)

\* C18: a stamped completion time means the snapshot is done: if
\* Status.CompletionTime is non-nil then IsDone() is true.
\* Refuted: MarkSucceeded, then MarkRunning.
C18_CompletionTimeImpliesDone ==
    CompletionTime # Nil => IsDone

\* C19: absorbing state: where HasStarted() is true, IsDone() is true and
\* completionTime is non-nil, every Mark* call leaves the whole status
\* unchanged.
C19_AbsorbingState ==
    [][ HasStarted /\ IsDone /\ CompletionTime # Nil => UNCHANGED status ]_vars

C19_CallsInAbsorbingState ==
    /\ Len(calls) = 4
    /\ calls[1] = <<"MarkRunning">>
    /\ calls[2] = <<"MarkSucceeded">>
    /\ calls[3] = <<"MarkInvalid", ApplicationSnapshotReasonValidationError, "x">>
    /\ calls[4] = <<"MarkRunning">>
    /\ Outcome = <<ConditionTrue, ApplicationSnapshotReasonSucceeded, "">>
    /\ HasStarted
    /\ CompletionTime # Nil

\* C20: eventual completion: in every infinite execution in which the caller
\* keeps invoking MarkSucceeded or MarkFailed, interleaved arbitrarily with
\* MarkRunning and MarkInvalid, IsDone() eventually becomes true and from
\* some point on stays true forever.
C20_EventuallyDoneForever == <>[]IsDone

C20_DoneAfterRunningAndFailed ==
    /\ now = MaxClock
    /\ IsDone
    /\ HasStarted
    /\ CompletionTime # Nil
    /\ Deref(StartTime) < Deref(CompletionTime)
    /\ seen = {Initialized, ConditionUnknown, ConditionFalse, ConditionTrue}

=============================================================================
